---- MODULE Spec2Model ----
(***************************************************************************)
(* Model of pkg/machineinformer/relocatablesysfs.go: the relocatable sysfs *)
(* reader.  Text (file contents, paths, directory names) is a sequence of  *)
(* one-character strings, so that splitting, trimming and number parsing   *)
(* are computed character by character as the Go code does.  The file      *)
(* system is the state; every operation of the reader is an action that    *)
(* records the call and what it returned.                                  *)
(***************************************************************************)
EXTENDS Integers, Sequences, FiniteSets, TLC

VARIABLES onlineFile, busPath, cpuDirs, uuidFiles, netFiles, cpuMapFile, call, ret

vars == <<onlineFile, busPath, cpuDirs, uuidFiles, netFiles, cpuMapFile, call, ret>>

fsVars == <<onlineFile, busPath, cpuDirs, uuidFiles, netFiles, cpuMapFile>>

(***************************************************************************)
(* Characters and files                                                    *)
(***************************************************************************)

\* The NUL byte "\000" of device-tree properties, as one character.
NUL == "NUL"

LF == "\n"

DecDigits == {"0", "1", "2", "3", "4", "5", "6", "7", "8", "9"}

DigitVal(c) ==
  CASE c = "0" -> 0 [] c = "1" -> 1 [] c = "2" -> 2 [] c = "3" -> 3
    [] c = "4" -> 4 [] c = "5" -> 5 [] c = "6" -> 6 [] c = "7" -> 7
    [] c = "8" -> 8 [] c = "9" -> 9
    [] c \in {"a", "A"} -> 10 [] c \in {"b", "B"} -> 11
    [] c \in {"c", "C"} -> 12 [] c \in {"d", "D"} -> 13
    [] c \in {"e", "E"} -> 14 [] c \in {"f", "F"} -> 15
    [] OTHER -> 99

\* unicode.IsSpace on the characters the model uses.
IsSpace(c) == c \in {" ", LF, "\t"}

\* A file of the tree: absent, present but unreadable, or readable with data.
NoFile == [kind |-> "absent", data |-> <<>>]

DeniedFile == [kind |-> "denied", data |-> <<>>]

DataFile(d) == [kind |-> "data", data |-> d]

\* ioutil.ReadFile: the bytes, or the error of the failed open.
ReadFile(f) ==
  IF f.kind = "data" THEN [data |-> f.data, err |-> "nil"]
  ELSE IF f.kind = "absent" THEN [data |-> <<>>, err |-> "ENOENT"]
  ELSE [data |-> <<>>, err |-> "EACCES"]

\* os.IsNotExist
IsNotExist(err) == err = "ENOENT"

(***************************************************************************)
(* strings.TrimSpace, strings.TrimRight, strings.Split, strings.SplitN     *)
(***************************************************************************)

RECURSIVE TrimLeftSpace(_)
TrimLeftSpace(s) ==
  IF s # <<>> /\ IsSpace(Head(s)) THEN TrimLeftSpace(Tail(s)) ELSE s

RECURSIVE TrimRightSpace(_)
TrimRightSpace(s) ==
  IF s # <<>> /\ IsSpace(s[Len(s)])
  THEN TrimRightSpace(SubSeq(s, 1, Len(s) - 1)) ELSE s

TrimSpace(s) == TrimRightSpace(TrimLeftSpace(s))

RECURSIVE TrimRight(_, _)
TrimRight(s, cutset) ==
  IF s # <<>> /\ s[Len(s)] \in cutset
  THEN TrimRight(SubSeq(s, 1, Len(s) - 1), cutset) ELSE s

\* Index of the first occurrence of sep in s, 0 if there is none.
Index(s, sep) ==
  IF \E i \in 1..Len(s) : s[i] = sep
  THEN CHOOSE i \in 1..Len(s) : s[i] = sep /\ \A j \in 1..(i - 1) : s[j] # sep
  ELSE 0

RECURSIVE SplitN(_, _, _)
SplitN(s, sep, n) ==
  IF n = 1 \/ Index(s, sep) = 0 THEN <<s>>
  ELSE <<SubSeq(s, 1, Index(s, sep) - 1)>>
         \o SplitN(SubSeq(s, Index(s, sep) + 1, Len(s)), sep, n - 1)

\* strings.Split(s, sep) is SplitN with no limit on the number of pieces.
Split(s, sep) == SplitN(s, sep, Len(s) + 2)

(***************************************************************************)
(* strconv.ParseUint(s, 10, bitSize)                                       *)
(***************************************************************************)

\* One step per character, as the library does: a character that is no digit
\* is a syntax error, a value above 2^bitSize - 1 a range error, whichever
\* comes first; the empty string is a syntax error.
RECURSIVE ParseDigits(_, _, _)
ParseDigits(s, n, maxVal) ==
  IF s = <<>> THEN [val |-> n, err |-> "nil"]
  ELSE IF Head(s) \notin DecDigits THEN [val |-> 0, err |-> "syntax"]
  ELSE IF n * 10 + DigitVal(Head(s)) > maxVal THEN [val |-> maxVal, err |-> "range"]
  ELSE ParseDigits(Tail(s), n * 10 + DigitVal(Head(s)), maxVal)

ParseUint(s, bitSize) ==
  IF s = <<>> THEN [val |-> 0, err |-> "syntax"]
  ELSE ParseDigits(s, 0, 2 ^ bitSize - 1)

\* The conversion uint16(v) of an integer.
Uint16(v) == v % (2 ^ 16)

(***************************************************************************)
(* isCPUOnline                                                             *)
(***************************************************************************)

\* for i := min; i <= max; i++ { if uint16(i) == cpuID { return true, nil } }
RangeHitExclusive(min, max, cpuID) == \E i \in min..(max - 1) : Uint16(i) = cpuID

RangeHit(min, max, cpuID) == \E i \in min..max : Uint16(i) = cpuID

\* if min > max { return false, fmt.Errorf("invalid values in %s", path) }
RangeInvertedNever(min, max) == FALSE

RangeInverted(min, max) == min > max

\* The body of the loop over the comma-separated tokens: the switch on the
\* number of dash-separated parts.  done: the function returns here.
MatchToken(s, cpuID) ==
  LET splitted == SplitN(s, "-", 3) IN
  CASE Len(splitted) = 3 -> [done |-> TRUE, online |-> FALSE, err |-> "invalid"]
    [] Len(splitted) = 2 ->
         LET min == ParseUint(splitted[1], 16)
             max == ParseUint(splitted[2], 16)
         IN IF min.err # "nil" THEN [done |-> TRUE, online |-> FALSE, err |-> min.err]
            ELSE IF max.err # "nil" THEN [done |-> TRUE, online |-> FALSE, err |-> max.err]
            ELSE IF RangeInverted(min.val, max.val)
              THEN [done |-> TRUE, online |-> FALSE, err |-> "invalid"]
            ELSE IF RangeHit(min.val, max.val, cpuID)
              THEN [done |-> TRUE, online |-> TRUE, err |-> "nil"]
            ELSE [done |-> FALSE, online |-> FALSE, err |-> "nil"]
    [] OTHER ->
         LET value == ParseUint(s, 16)
         IN IF value.err # "nil" THEN [done |-> TRUE, online |-> FALSE, err |-> value.err]
            ELSE IF Uint16(value.val) = cpuID
              THEN [done |-> TRUE, online |-> TRUE, err |-> "nil"]
            ELSE [done |-> FALSE, online |-> FALSE, err |-> "nil"]

\* for _, s := range strings.Split(cpuList, ",") { ... } return false, nil
RECURSIVE ScanCPUList(_, _)
ScanCPUList(tokens, cpuID) ==
  IF tokens = <<>> THEN [online |-> FALSE, err |-> "nil"]
  ELSE LET r == MatchToken(Head(tokens), cpuID)
       IN IF r.done THEN [online |-> r.online, err |-> r.err]
          ELSE ScanCPUList(Tail(tokens), cpuID)

isCPUOnline(path, cpuID) ==
  LET rd == ReadFile(path) IN
  IF rd.err # "nil" THEN [online |-> FALSE, err |-> rd.err]
  ELSE IF Len(rd.data) = 0 THEN [online |-> FALSE, err |-> "empty"]
  ELSE ScanCPUList(Split(TrimSpace(rd.data), ","), cpuID)

(***************************************************************************)
(* Inputs of the online-list specification                                 *)
(***************************************************************************)

\* Longest online list drawn, in tokens.
MaxTokens == 2

TokenSamples ==
  { <<"0">>, <<"2">>, <<"0", "7">>, <<"1", "-", "2">>, <<"0", "-", "3">>,
    <<"5", "-", "3">>, <<"1", "-", "2", "-", "3">>, <<"x">>, <<"-", "1">>,
    <<"6", "5", "5", "3", "5">>, <<"6", "5", "5", "3", "6">>,
    <<"1", "-", "6", "5", "5", "3", "6">>, <<"6", "5", "5", "3", "4", "-", "6", "5", "5", "3", "5">> }

RECURSIVE JoinTokens(_)
JoinTokens(ts) ==
  IF ts = <<>> THEN <<>>
  ELSE IF Len(ts) = 1 THEN ts[1]
  ELSE ts[1] \o <<",">> \o JoinTokens(Tail(ts))

TokenLists == UNION { [1..n -> TokenSamples] : n \in 0..MaxTokens }

\* The list as the kernel writes it (a trailing newline) and without it.
OnlineContents ==
  { JoinTokens(ts) : ts \in TokenLists } \cup { JoinTokens(ts) \o <<LF>> : ts \in TokenLists }

OnlineFiles == {NoFile, DeniedFile} \cup { DataFile(c) : c \in OnlineContents }

CPUIDs == {0, 1, 2, 3, 5, 7, 65535}

NoCall == [op |-> "none"]

NoRet == [none |-> TRUE]

InitOnline ==
  /\ onlineFile \in OnlineFiles
  /\ busPath = <<>>
  /\ cpuDirs = <<>>
  /\ uuidFiles = <<>>
  /\ netFiles = <<>>
  /\ cpuMapFile = NoFile
  /\ call = NoCall
  /\ ret = NoRet

CallIsCPUOnline(cpuID) ==
  /\ call' = [op |-> "isCPUOnline", cpuID |-> cpuID]
  /\ ret' = isCPUOnline(onlineFile, cpuID)
  /\ UNCHANGED fsVars

NextOnline == \E cpuID \in CPUIDs : CallIsCPUOnline(cpuID)

SpecOnline == InitOnline /\ [][NextOnline]_vars

(***************************************************************************)
(* getCPUID                                                                *)
(***************************************************************************)

\* Where the regular expression cpu([0-9]+) matches in dir.
MatchStarts(dir) ==
  { i \in 1..(Len(dir) - 3) :
      dir[i] = "c" /\ dir[i + 1] = "p" /\ dir[i + 2] = "u" /\ dir[i + 3] \in DecDigits }

\* The end of the run of digits that starts at position i.
DigitRunEnd(dir, i) ==
  CHOOSE j \in i..Len(dir) :
    /\ \A k \in i..j : dir[k] \in DecDigits
    /\ (j = Len(dir) \/ dir[j + 1] \notin DecDigits)

\* regex.FindStringSubmatch(dir): the leftmost match and its group, or nothing.
FindStringSubmatch(dir) ==
  IF MatchStarts(dir) = {} THEN <<>>
  ELSE LET i == CHOOSE i \in MatchStarts(dir) : \A j \in MatchStarts(dir) : i <= j
       IN <<SubSeq(dir, i, DigitRunEnd(dir, i + 3)), SubSeq(dir, i + 3, DigitRunEnd(dir, i + 3))>>

RECURSIVE TrimLeftZeros(_)
TrimLeftZeros(s) == IF Len(s) > 1 /\ Head(s) = "0" THEN TrimLeftZeros(Tail(s)) ELSE s

\* The digits of the largest int, 2^63 - 1.
MaxIntDigits ==
  <<"9", "2", "2", "3", "3", "7", "2", "0", "3", "6", "8", "5", "4", "7", "7", "5", "8", "0", "7">>

\* a is a larger number than b, for two runs of digits without leading zeros.
DigitsAbove(a, b) ==
  \/ Len(a) > Len(b)
  \/ /\ Len(a) = Len(b)
     /\ \E i \in 1..Len(a) :
          /\ DigitVal(a[i]) > DigitVal(b[i])
          /\ \A j \in 1..(i - 1) : a[j] = b[j]

RECURSIVE DecFold(_, _)
DecFold(s, n) == IF s = <<>> THEN n ELSE DecFold(Tail(s), n * 10 + DigitVal(Head(s)))

\* strconv.Atoi on a run of digits: the value, or a range error when it does
\* not fit the 64-bit int.
Atoi(s) ==
  IF DigitsAbove(TrimLeftZeros(s), MaxIntDigits) THEN [val |-> 0, err |-> "range"]
  ELSE [val |-> DecFold(s, 0), err |-> "nil"]

\* return uint16(id), nil
NarrowKeepsValue(id) == id

Narrow(id) == Uint16(id)

getCPUID(dir) ==
  LET matches == FindStringSubmatch(dir) IN
  IF Len(matches) = 2
  THEN LET id == Atoi(matches[2])
       IN IF id.err # "nil" THEN [id |-> 0, err |-> id.err]
          ELSE [id |-> Narrow(id.val), err |-> "nil"]
  ELSE [id |-> 0, err |-> "format"]

(***************************************************************************)
(* relocatableSysFs.IsCPUOnline and GetUniqueCPUPropertyCount              *)
(***************************************************************************)

\* The path of an entry of the bus directory.
JoinPath(dir, name) == dir \o <<"/">> \o name

\* os.Stat of the online list: it fails only when the file is not there.
StatErr(f) == IF f.kind = "absent" THEN "ENOENT" ELSE "nil"

\* IsCPUOnline(cpuPath) for a cpuPath under the bus directory, whose
\* cpuPath + "/../online" is the online list of the bus.
IsCPUOnline(cpuPath, online) ==
  IF IsNotExist(StatErr(online)) THEN TRUE
  ELSE LET cpuID == getCPUID(cpuPath) IN
       IF cpuID.err # "nil" THEN FALSE
       ELSE LET isOnline == isCPUOnline(online, cpuID.id) IN
            IF isOnline.err # "nil" THEN FALSE ELSE isOnline.online

\* filepath.Match("cpu*[0-9]", name): cpu, anything, one final digit.
GlobMatch(name) ==
  /\ Len(name) >= 4
  /\ name[1] = "c" /\ name[2] = "p" /\ name[3] = "u"
  /\ name[Len(name)] \in DecDigits

\* filepath.Glob(absCPUBusPath + "/cpu*[0-9]"): the matching entries, in
\* the order of the directory listing.
Glob(dirs) == SelectSeq(dirs, LAMBDA e : GlobMatch(e.name))

CPUPhysicalPackageID ==
  <<"p", "h", "y", "s", "i", "c", "a", "l", "_", "p", "a", "c", "k", "a", "g", "e", "_", "i", "d">>

CPUCoreID == <<"c", "o", "r", "e", "_", "i", "d">>

\* The file topology/<propertyName> of a CPU directory.
TopologyFile(e, propertyName) ==
  IF propertyName = CPUCoreID THEN e.core
  ELSE IF propertyName = CPUPhysicalPackageID THEN e.pkg
  ELSE NoFile

\* The value read from a topology file, "0" when it cannot be read.
ValueOrZero(f) == IF ReadFile(f).err # "nil" THEN <<"0">> ELSE ReadFile(f).data

\* fmt.Sprintf("%s_%s", bytes.TrimSpace(propertyVal), bytes.TrimSpace(packageVal))
UniqueKey(e, propertyName) ==
  TrimSpace(ValueOrZero(TopologyFile(e, propertyName)))
    \o <<"_">> \o TrimSpace(ValueOrZero(TopologyFile(e, CPUPhysicalPackageID)))

\* The loop over sysCPUPaths; uniques is the map built so far.
RECURSIVE CountLoop(_, _, _, _, _)
CountLoop(bus, paths, online, propertyName, uniques) ==
  IF paths = <<>> THEN Cardinality(uniques)
  ELSE LET e == Head(paths)
           cpuID == getCPUID(JoinPath(bus, e.name))
           isOnline == isCPUOnline(online, cpuID.id)
       IN IF cpuID.err # "nil" THEN 0
          ELSE IF isOnline.err # "nil" /\ ~IsNotExist(isOnline.err)
            THEN CountLoop(bus, Tail(paths), online, propertyName, uniques)
          ELSE IF ~isOnline.online /\ ~IsNotExist(isOnline.err)
            THEN CountLoop(bus, Tail(paths), online, propertyName, uniques)
          ELSE CountLoop(bus, Tail(paths), online, propertyName,
                         uniques \cup {UniqueKey(e, propertyName)})

GetUniqueCPUPropertyCount(bus, dirs, online, propertyName) ==
  CountLoop(bus, Glob(dirs), online, propertyName, {})

(***************************************************************************)
(* Inputs of the CPU-directory specification                               *)
(***************************************************************************)

Cpu(digits) == <<"c", "p", "u">> \o digits

\* The entries a bus directory may hold, in the order of a listing.
NameList ==
  << Cpu(<<"0">>), Cpu(<<"1">>), Cpu(<<"6", "5", "5", "3", "6">>),
     Cpu(<<"f", "r", "e", "q">>), Cpu(<<"x", "1">>) >>

\* Most entries a drawn bus directory holds.
MaxDirs == 3

ValueFiles == {NoFile, DataFile(<<"0", LF>>), DataFile(<<"1", LF>>)}

\* The directories of NameList that are there: every choice of at most
\* MaxDirs of them, each CPU with its topology files.
DirChoices ==
  { pick \in SUBSET (1..Len(NameList)) : Cardinality(pick) <= MaxDirs }

RECURSIVE ListOf(_, _)
ListOf(pick, files) ==
  IF pick = {} THEN <<>>
  ELSE LET i == CHOOSE i \in pick : \A j \in pick : i <= j
       IN <<[name |-> NameList[i], core |-> files[i][1], pkg |-> files[i][2]]>>
            \o ListOf(pick \ {i}, files)

\* The topology files drawn for entry i: both files for cpu0 and cpu1, a
\* core_id or nothing for cpu65536, nothing for the entries that are no CPU.
FilesOf(i) ==
  IF i <= 2 THEN ValueFiles \X ValueFiles
  ELSE IF i = 3 THEN {<<NoFile, NoFile>>, <<DataFile(<<"1", LF>>), NoFile>>}
  ELSE {<<NoFile, NoFile>>}

DirLists ==
  UNION { { ListOf(pick, files) :
              files \in { f \in [pick -> ValueFiles \X ValueFiles] :
                            \A i \in pick : f[i] \in FilesOf(i) } } :
          pick \in DirChoices }

\* Four CPUs of one package, two on each core.
FourCPUs ==
  << [name |-> Cpu(<<"0">>), core |-> DataFile(<<"0", LF>>), pkg |-> DataFile(<<"0", LF>>)],
     [name |-> Cpu(<<"1">>), core |-> DataFile(<<"0", LF>>), pkg |-> DataFile(<<"0", LF>>)],
     [name |-> Cpu(<<"2">>), core |-> DataFile(<<"1", LF>>), pkg |-> DataFile(<<"0", LF>>)],
     [name |-> Cpu(<<"3">>), core |-> DataFile(<<"1", LF>>), pkg |-> DataFile(<<"0", LF>>)] >>

BusPaths ==
  { <<"/", "s", "/", "c", "p", "u">>, <<"/", "c", "p", "u", "7", "/", "b">> }

BusOnlineFiles ==
  { NoFile, DeniedFile, DataFile(<<>>), DataFile(<<"0", LF>>),
    DataFile(<<"0", "-", "1", LF>>), DataFile(<<"0", ",", "5", "-", "3", LF>>) }

PropertyNames == {CPUCoreID, CPUPhysicalPackageID}

\* A CPU directory whose number does not fit an int.
HugeCpu ==
  Cpu(<<"9", "9", "9", "9", "9", "9", "9", "9", "9", "9",
        "9", "9", "9", "9", "9", "9", "9", "9", "9", "9">>)

PathNames == { NameList[i] : i \in 1..Len(NameList) } \cup {HugeCpu}

InitCount ==
  /\ onlineFile \in BusOnlineFiles
  /\ busPath \in BusPaths
  /\ cpuDirs \in DirLists \cup {FourCPUs}
  /\ uuidFiles = <<>>
  /\ netFiles = <<>>
  /\ cpuMapFile = NoFile
  /\ call = NoCall
  /\ ret = NoRet

CallGetUniqueCPUPropertyCount(propertyName) ==
  /\ call' = [op |-> "GetUniqueCPUPropertyCount", propertyName |-> propertyName]
  /\ ret' = [count |-> GetUniqueCPUPropertyCount(busPath, cpuDirs, onlineFile, propertyName)]
  /\ UNCHANGED fsVars

CallSysFsIsCPUOnline(name) ==
  /\ call' = [op |-> "IsCPUOnline", name |-> name]
  /\ ret' = [online |-> IsCPUOnline(JoinPath(busPath, name), onlineFile)]
  /\ UNCHANGED fsVars

CallGetCPUID(name) ==
  /\ call' = [op |-> "getCPUID", name |-> name]
  /\ ret' = getCPUID(JoinPath(busPath, name))
  /\ UNCHANGED fsVars

NextCount ==
  \/ \E propertyName \in PropertyNames : CallGetUniqueCPUPropertyCount(propertyName)
  \/ \E name \in PathNames : CallSysFsIsCPUOnline(name)
  \/ \E name \in PathNames : CallGetCPUID(name)

SpecCount == InitCount /\ [][NextCount]_vars

(***************************************************************************)
(* relocatableSysFs.GetSystemUUID                                          *)
(***************************************************************************)

\* ioutil.ReadFile of a named path: the error carries the path.
ReadPath(path, f) ==
  [data |-> ReadFile(f).data,
   err |-> IF ReadFile(f).err = "nil" THEN "nil" ELSE <<path, ReadFile(f).err>>]

\* strings.TrimSpace(string(id))
TrimText(id) == TrimSpace(id)

\* strings.TrimSpace(strings.TrimRight(string(id), "\000"))
TrimDeviceTreeKeepsNul(id) == TrimSpace(id)

TrimDeviceTree(id) == TrimSpace(TrimRight(id, {NUL}))

GetSystemUUID(files) ==
  LET dmi == ReadPath("product_uuid", files.dmi)
      sys == ReadPath("system-id", files.systemID)
      vm == ReadPath("vm,uuid", files.vmUUID)
      mid == ReadPath("machine-id", files.machineID)
  IN IF dmi.err = "nil" THEN [uuid |-> TrimText(dmi.data), err |-> "nil"]
     ELSE IF sys.err = "nil" THEN [uuid |-> TrimDeviceTree(sys.data), err |-> "nil"]
     ELSE IF vm.err = "nil" THEN [uuid |-> TrimDeviceTree(vm.data), err |-> "nil"]
     ELSE IF mid.err = "nil" THEN [uuid |-> TrimText(mid.data), err |-> "nil"]
     ELSE [uuid |-> <<>>, err |-> mid.err]

UUIDContents ==
  { <<"A", "B", NUL, NUL>>, <<"A", "B", LF>>, <<"A", "B", NUL, LF>>,
    <<LF, "C", LF, NUL>>, <<"D", NUL, "E">> }

UUIDFileStates == {NoFile, DeniedFile} \cup { DataFile(c) : c \in UUIDContents }

InitUUID ==
  /\ uuidFiles \in [dmi : UUIDFileStates, systemID : UUIDFileStates,
                    vmUUID : UUIDFileStates, machineID : UUIDFileStates]
  /\ onlineFile = NoFile
  /\ busPath = <<>>
  /\ cpuDirs = <<>>
  /\ netFiles = <<>>
  /\ cpuMapFile = NoFile
  /\ call = NoCall
  /\ ret = NoRet

CallGetSystemUUID ==
  /\ call' = [op |-> "GetSystemUUID"]
  /\ ret' = GetSystemUUID(uuidFiles)
  /\ UNCHANGED fsVars

NextUUID == CallGetSystemUUID

SpecUUID == InitUUID /\ [][NextUUID]_vars

(***************************************************************************)
(* relocatableSysFs.GetNetworkDevices                                      *)
(***************************************************************************)

\* The mode bits ioutil.ReadDir reports for an entry (it does not follow
\* links).
ModeOf(kind) ==
  IF kind = "dir" THEN {"ModeDir"}
  ELSE IF kind \in {"linkdir", "linkfile", "linkbroken"} THEN {"ModeSymlink"}
  ELSE {}

\* os.Lstat: the entry itself.
Lstat(e) == [mode |-> ModeOf(e.kind), err |-> "nil"]

\* os.Stat: the entry after following links; a link to nothing is an error.
Stat(e) ==
  IF e.kind = "linkbroken" THEN [mode |-> {}, err |-> "ENOENT"]
  ELSE IF e.kind \in {"dir", "linkdir"} THEN [mode |-> {"ModeDir"}, err |-> "nil"]
  ELSE [mode |-> {}, err |-> "nil"]

\* f.Mode()|os.ModeSymlink != 0
IsLinkTest(mode) == (mode \cup {"ModeSymlink"}) # {}

IsDir(mode) == "ModeDir" \in mode

\* The loop over the entries; dirs is the slice built so far.
RECURSIVE FilterDirs(_, _)
FilterDirs(files, dirs) ==
  IF files = <<>> THEN dirs
  ELSE LET f == Head(files)
           st == IF IsLinkTest(ModeOf(f.kind)) THEN Stat(f)
                 ELSE [mode |-> ModeOf(f.kind), err |-> "nil"]
       IN IF st.err # "nil" THEN FilterDirs(Tail(files), dirs)
          ELSE IF IsDir(st.mode) THEN FilterDirs(Tail(files), Append(dirs, f.name))
          ELSE FilterDirs(Tail(files), dirs)

GetNetworkDevices(net) ==
  IF net.err # "nil" THEN [dirs |-> <<>>, err |-> net.err]
  ELSE [dirs |-> FilterDirs(net.files, <<>>), err |-> "nil"]

\* Most entries a drawn net directory holds.
MaxNetFiles == 3

EntryKinds == {"dir", "file", "linkdir", "linkfile", "linkbroken"}

\* A listing of n entries: the names in order, each of any kind.
NetListings ==
  UNION { { [i \in 1..n |-> [name |-> i, kind |-> kinds[i]]] : kinds \in [1..n -> EntryKinds] } :
          n \in 0..MaxNetFiles }

InitNet ==
  /\ netFiles \in { [err |-> "nil", files |-> l] : l \in NetListings }
                    \cup { [err |-> "ENOENT", files |-> <<>>] }
  /\ onlineFile = NoFile
  /\ busPath = <<>>
  /\ cpuDirs = <<>>
  /\ uuidFiles = <<>>
  /\ cpuMapFile = NoFile
  /\ call = NoCall
  /\ ret = NoRet

CallGetNetworkDevices ==
  /\ call' = [op |-> "GetNetworkDevices"]
  /\ ret' = GetNetworkDevices(netFiles)
  /\ UNCHANGED fsVars

NextNet == CallGetNetworkDevices

SpecNet == InitNet /\ [][NextNet]_vars

(***************************************************************************)
(* bitCount and getCPUCount                                                *)
(***************************************************************************)

\* The width of a mask: strconv.ParseUint(mask, 16, 64).
BitSize64 == 64

\* A uint64 is its bits, the most significant first.
Zero64 == [i \in 1..BitSize64 |-> 0]

NibbleBits(d) == <<(d \div 8) % 2, (d \div 4) % 2, (d \div 2) % 2, d % 2>>

\* n*16 + d for a digit d and an n below 2^60.
ShiftInNibble(n, d) == SubSeq(n, 5, BitSize64) \o NibbleBits(d)

\* i >>= 1
ShiftRight(i) == <<0>> \o SubSeq(i, 1, BitSize64 - 1)

\* strconv.ParseUint(s, 16, 64), one step per character: a character that is
\* no hexadecimal digit is a syntax error, a value of more than 64 bits a
\* range error; the empty string is a syntax error.
RECURSIVE ParseHexDigits(_, _)
ParseHexDigits(s, n) ==
  IF s = <<>> THEN [val |-> n, err |-> "nil"]
  ELSE IF DigitVal(Head(s)) > 15 THEN [val |-> Zero64, err |-> "syntax"]
  ELSE IF \E k \in 1..4 : n[k] = 1 THEN [val |-> Zero64, err |-> "range"]
  ELSE ParseHexDigits(Tail(s), ShiftInNibble(n, DigitVal(Head(s))))

ParseUintHex(s) ==
  IF s = <<>> THEN [val |-> Zero64, err |-> "syntax"]
  ELSE ParseHexDigits(s, Zero64)

RECURSIVE bitCount(_)
bitCount(i) ==
  IF i = Zero64 THEN 0
  ELSE (IF i[BitSize64] = 1 THEN 1 ELSE 0) + bitCount(ShiftRight(i))

\* return 0, fmt.Errorf("failed to parse cpu map %q: %v", ...)
CountOnErrorKept(count) == count

CountOnError(count) == 0

\* The loop over the masks; count is the named result so far.
RECURSIVE SumMasks(_, _)
SumMasks(masks, count) ==
  IF masks = <<>> THEN [count |-> count, err |-> "nil"]
  ELSE LET m == ParseUintHex(TrimSpace(Head(masks)))
       IN IF m.err # "nil" THEN [count |-> CountOnError(count), err |-> "parse"]
          ELSE SumMasks(Tail(masks), count + bitCount(m.val))

getCPUCount(cache) ==
  LET out == ReadFile(cache) IN
  IF out.err # "nil" THEN [count |-> 0, err |-> out.err]
  ELSE SumMasks(Split(out.data, ","), 0)

\* Most masks a drawn shared_cpu_map holds.
MaxMasks == 2

MaskSamples ==
  { <<"f">>, <<"0">>, <<"f", "f">>, <<"A", "5">>, <<"g">>, <<>>, <<" ", "3">>,
    <<"f", "f", "f", "f", "f", "f", "f", "f", "f", "f", "f", "f", "f", "f", "f", "f">>,
    <<"1", "0", "0", "0", "0", "0", "0", "0", "0", "0", "0", "0", "0", "0", "0", "0", "0">>,
    <<"0", "8", "0", "0", "0", "0", "0", "0", "0", "0", "0", "0", "0", "0", "0", "0", "1">> }

MaskLists == UNION { [1..n -> MaskSamples] : n \in 0..MaxMasks }

CPUMapContents ==
  { JoinTokens(ms) : ms \in MaskLists } \cup { JoinTokens(ms) \o <<LF>> : ms \in MaskLists }

InitMask ==
  /\ cpuMapFile \in {NoFile, DeniedFile} \cup { DataFile(c) : c \in CPUMapContents }
  /\ onlineFile = NoFile
  /\ busPath = <<>>
  /\ cpuDirs = <<>>
  /\ uuidFiles = <<>>
  /\ netFiles = <<>>
  /\ call = NoCall
  /\ ret = NoRet

CallGetCPUCount ==
  /\ call' = [op |-> "getCPUCount"]
  /\ ret' = getCPUCount(cpuMapFile)
  /\ UNCHANGED fsVars

NextMask == CallGetCPUCount

SpecMask == InitMask /\ [][NextMask]_vars

(***************************************************************************)
(* The online-range syntax, stated on the text itself: the tokens are the  *)
(* maximal comma-free stretches of the list, a number is a non-empty run   *)
(* of decimal digits, a range is two numbers around a single dash.         *)
(***************************************************************************)

\* The list without the newline that ends the file.
ListText(data) ==
  IF data # <<>> /\ data[Len(data)] = LF THEN SubSeq(data, 1, Len(data) - 1) ELSE data

\* Positions that bound a token: before the text, each comma, after the text.
Bounds(s) == {0, Len(s) + 1} \cup { i \in 1..Len(s) : s[i] = "," }

\* The tokens by the position of the boundary that opens them.
TokenStarts(s) == Bounds(s) \ {Len(s) + 1}

TokenAt(s, a) ==
  LET b == CHOOSE b \in Bounds(s) : b > a /\ \A m \in Bounds(s) : m > a => b <= m
  IN SubSeq(s, a + 1, b - 1)

Dashes(tok) == { i \in 1..Len(tok) : tok[i] = "-" }

RECURSIVE Pow10(_)
Pow10(k) == IF k = 0 THEN 1 ELSE 10 * Pow10(k - 1)

RECURSIVE PlaceSum(_, _)
PlaceSum(s, k) ==
  IF k = 0 THEN 0 ELSE DigitVal(s[k]) * Pow10(Len(s) - k) + PlaceSum(s, k - 1)

\* A non-negative 16-bit integer in decimal.
IsNumber16(s) ==
  /\ s # <<>>
  /\ \A i \in 1..Len(s) : s[i] \in DecDigits
  /\ PlaceSum(s, Len(s)) <= 65535

RangeLow(tok) == SubSeq(tok, 1, (CHOOSE i \in Dashes(tok) : TRUE) - 1)

RangeHigh(tok) == SubSeq(tok, (CHOOSE i \in Dashes(tok) : TRUE) + 1, Len(tok))

IsRangeToken(tok) ==
  /\ Cardinality(Dashes(tok)) = 1
  /\ IsNumber16(RangeLow(tok))
  /\ IsNumber16(RangeHigh(tok))
  /\ PlaceSum(RangeLow(tok), Len(RangeLow(tok))) <= PlaceSum(RangeHigh(tok), Len(RangeHigh(tok)))

IsValidToken(tok) == IsNumber16(tok) \/ IsRangeToken(tok)

\* The token names CPU i: it is the number i, or a range that holds i.
Names(tok, i) ==
  \/ IsNumber16(tok) /\ PlaceSum(tok, Len(tok)) = i
  \/ /\ IsRangeToken(tok)
     /\ PlaceSum(RangeLow(tok), Len(RangeLow(tok))) <= i
     /\ i <= PlaceSum(RangeHigh(tok), Len(RangeHigh(tok)))

IsValidList(s) == \A a \in TokenStarts(s) : IsValidToken(TokenAt(s, a))

\* The malformed shapes of a range: inverted bounds, a bound that is no
\* 16-bit number, three or more dash-separated parts.
IsMalformedRange(tok) == Dashes(tok) # {} /\ ~IsRangeToken(tok)

AskedOnline == call.op = "isCPUOnline" /\ onlineFile.kind = "data"

\* C1: for a valid online list and any CPU id, isCPUOnline answers without
\* error, and answers true exactly when some token of the list is that id or
\* is an inclusive range holding it.
C1_OnlineIffNamed ==
  (AskedOnline /\ IsValidList(ListText(onlineFile.data))) =>
    /\ ret.err = "nil"
    /\ ret.online <=> \E a \in TokenStarts(ListText(onlineFile.data)) :
                        Names(TokenAt(ListText(onlineFile.data), a), call.cpuID)

\* A valid list of two tokens whose first does not name the CPU asked for and
\* whose second, a range, does: the answer is true.
C1_Witness ==
  /\ AskedOnline /\ IsValidList(ListText(onlineFile.data))
  /\ ~Names(TokenAt(ListText(onlineFile.data), 0), call.cpuID)
  /\ \E a \in TokenStarts(ListText(onlineFile.data)) :
       /\ a > 0
       /\ IsRangeToken(TokenAt(ListText(onlineFile.data), a))
       /\ Names(TokenAt(ListText(onlineFile.data), a), call.cpuID)
  /\ ret.online /\ ret.err = "nil"

HasMalformedRange ==
  AskedOnline /\ \E a \in TokenStarts(ListText(onlineFile.data)) :
                   IsMalformedRange(TokenAt(ListText(onlineFile.data), a))

\* The first token of the list that is not valid.
FirstBad(s) ==
  CHOOSE a \in TokenStarts(s) :
    /\ ~IsValidToken(TokenAt(s, a))
    /\ \A b \in TokenStarts(s) : b < a => IsValidToken(TokenAt(s, b))

NamedBeforeFirstBad(s, i) ==
  \E b \in TokenStarts(s) : b < FirstBad(s) /\ Names(TokenAt(s, b), i)

\* C6 as stated: a list that holds a malformed range token makes isCPUOnline
\* fail with an error for every CPU id, wherever the token stands.
C6_MalformedAlwaysFails == HasMalformedRange => ret.err # "nil"

\* C6 amended: a list that holds a malformed range token makes isCPUOnline
\* fail with an error unless a token standing before the first invalid token
\* names the CPU asked for; in that case it answers true without error.
C6_MalformedFailsUnlessNamedBefore ==
  HasMalformedRange =>
    IF NamedBeforeFirstBad(ListText(onlineFile.data), call.cpuID)
    THEN ret.online /\ ret.err = "nil"
    ELSE ret.err # "nil" /\ ~ret.online

\* A malformed range stands second, behind a token that does not name the CPU
\* asked for: the call fails.
C6_Witness ==
  /\ HasMalformedRange
  /\ FirstBad(ListText(onlineFile.data)) > 0
  /\ IsMalformedRange(TokenAt(ListText(onlineFile.data), FirstBad(ListText(onlineFile.data))))
  /\ ~NamedBeforeFirstBad(ListText(onlineFile.data), call.cpuID)
  /\ ret.err = "invalid"

\* C7: whenever the content of the online list is empty after trimming - a
\* file of length zero or a file of white space only - isCPUOnline fails
\* with the empty-file error "<path> found to be empty".
C7_BlankFileIsEmptyError ==
  (AskedOnline /\ \A i \in 1..Len(onlineFile.data) : IsSpace(onlineFile.data[i])) =>
    ret.err = "empty"

(***************************************************************************)
(* Claims about the CPU directories                                        *)
(***************************************************************************)

\* The entry is the directory of a CPU: cpu followed by digits only.
IsCpuDir(name) ==
  /\ Len(name) >= 4
  /\ name[1] = "c" /\ name[2] = "p" /\ name[3] = "u"
  /\ \A i \in 4..Len(name) : name[i] \in DecDigits

\* The digits of the CPU's number, without leading zeros.
CpuDigits(name) == TrimLeftZeros(SubSeq(name, 4, Len(name)))

DigitChar(d) == CHOOSE c \in DecDigits : DigitVal(c) = d

\* The decimal digits of a natural number.
RECURSIVE ToDigits(_)
ToDigits(n) == IF n < 10 THEN <<DigitChar(n)>> ELSE ToDigits(n \div 10) \o <<DigitChar(n % 10)>>

CpuDirIndexes == { i \in 1..Len(cpuDirs) : IsCpuDir(cpuDirs[i].name) }

\* CPU number N is online: there is no online list, or the list names N.
ListedOnline(name) ==
  \/ onlineFile.kind = "absent"
  \/ /\ Len(CpuDigits(name)) <= 5
     /\ PlaceSum(CpuDigits(name), Len(CpuDigits(name))) <= 65535
     /\ isCPUOnline(onlineFile, PlaceSum(CpuDigits(name), Len(CpuDigits(name)))).online

Counted == call.op = "GetUniqueCPUPropertyCount"

\* C2: without an online list every CPU is online: IsCPUOnline answers true
\* for every path, and GetUniqueCPUPropertyCount counts the keys of all the
\* cpu<N> directories.
C2_NoListAllOnline ==
  onlineFile.kind = "absent" =>
    /\ call.op = "IsCPUOnline" => ret.online
    /\ Counted => ret.count = Cardinality({ UniqueKey(cpuDirs[i], call.propertyName) :
                                              i \in CpuDirIndexes })

\* C3: GetUniqueCPUPropertyCount returns the number of distinct keys
\* "<property>_<package>" over exactly the cpu<N> directories whose CPU is
\* online, an unreadable file counting as "0".
C3_CountsOnlineKeys ==
  Counted =>
    ret.count = Cardinality({ UniqueKey(cpuDirs[i], call.propertyName) :
                                i \in { j \in CpuDirIndexes : ListedOnline(cpuDirs[j].name) } })

\* A matched entry from which no CPU id can be extracted.
NoCPUID(e) == GlobMatch(e.name) /\ getCPUID(JoinPath(busPath, e.name)).err # "nil"

\* C9: a matched entry without a CPU id is skipped: the count is the one of
\* the directory without that entry.
C9_EntryWithoutIDSkipped ==
  Counted =>
    ret.count = GetUniqueCPUPropertyCount(busPath, SelectSeq(cpuDirs, LAMBDA e : ~NoCPUID(e)),
                                          onlineFile, call.propertyName)

\* C10: on a path whose last segment is cpu<N>, getCPUID returns N, whatever
\* N is and whatever the directories above are called; it fails with the
\* format error exactly when the path holds no cpu<digits> text.
C10_IDIsOwnNumber ==
  call.op = "getCPUID" =>
    /\ IsCpuDir(call.name) => ret.err = "nil" /\ ToDigits(ret.id) = CpuDigits(call.name)
    /\ ret.err = "format" <=>
         ~\E i \in 1..(Len(JoinPath(busPath, call.name)) - 3) :
             /\ SubSeq(JoinPath(busPath, call.name), i, i + 2) = <<"c", "p", "u">>
             /\ JoinPath(busPath, call.name)[i + 3] \in DecDigits

(***************************************************************************)
(* Claims about the system UUID                                            *)
(***************************************************************************)

SetMin(S) == CHOOSE x \in S : \A y \in S : x <= y

SetMax(S) == CHOOSE x \in S : \A y \in S : y <= x

\* The text between its first and its last character outside skip.
Between(s, lead, trail) ==
  LET from == { i \in 1..Len(s) : s[i] \notin lead }
      to == { i \in 1..Len(s) : s[i] \notin trail }
  IN IF from = {} \/ to = {} THEN <<>> ELSE SubSeq(s, SetMin(from), SetMax(to))

Blank == {" ", LF, "\t"}

\* The text up to its last character that is not NUL.
WithoutNulTail(s) ==
  LET keep == { i \in 1..Len(s) : s[i] # NUL }
  IN IF keep = {} THEN <<>> ELSE SubSeq(s, 1, SetMax(keep))

SourceOrder == <<"dmi", "systemID", "vmUUID", "machineID">>

SourcePath == [dmi |-> "product_uuid", systemID |-> "system-id",
               vmUUID |-> "vm,uuid", machineID |-> "machine-id"]

Readable == { i \in 1..Len(SourceOrder) : uuidFiles[SourceOrder[i]].kind = "data" }

FirstReadable == SourceOrder[SetMin(Readable)]

AskedUUID == call.op = "GetSystemUUID"

\* C4 as stated: the four sources are tried in order, the first readable one
\* is returned with its trailing NUL bytes and white space removed whichever
\* source it is, and the error of the last source is returned only when all
\* four fail.
C4_TrailingNulAndSpaceRemoved ==
  AskedUUID =>
    IF Readable = {}
    THEN ret.err = <<SourcePath.machineID,
                     IF uuidFiles.machineID.kind = "absent" THEN "ENOENT" ELSE "EACCES">>
    ELSE /\ ret.err = "nil"
         /\ ret.uuid = Between(uuidFiles[FirstReadable].data, Blank, Blank \cup {NUL})

\* C4 amended: the four sources are tried in order and the first readable one
\* is returned with the white space around it removed; trailing NUL bytes are
\* removed, before the white space, only from the two device-tree sources
\* system-id and vm,uuid; the error of the last source is returned only when
\* all four fail.
C4_FirstReadableTrimmed ==
  AskedUUID =>
    IF Readable = {}
    THEN /\ ret.uuid = <<>>
         /\ ret.err = <<SourcePath.machineID,
                        IF uuidFiles.machineID.kind = "absent" THEN "ENOENT" ELSE "EACCES">>
    ELSE /\ ret.err = "nil"
         /\ ret.uuid =
              IF FirstReadable \in {"systemID", "vmUUID"}
              THEN Between(WithoutNulTail(uuidFiles[FirstReadable].data), Blank, Blank)
              ELSE Between(uuidFiles[FirstReadable].data, Blank, Blank)

\* No DMI file, and a system-id of "AB" followed by two NUL bytes: the UUID
\* is "AB".
C4_Witness ==
  /\ AskedUUID
  /\ uuidFiles.dmi.kind = "absent"
  /\ uuidFiles.systemID = DataFile(<<"A", "B", NUL, NUL>>)
  /\ ret.uuid = <<"A", "B">>

(***************************************************************************)
(* Claims about the network devices                                        *)
(***************************************************************************)

AskedNet == call.op = "GetNetworkDevices" /\ netFiles.err = "nil"

\* The entry is a directory once links are followed.
LeadsToDir(e) == e.kind \in {"dir", "linkdir"}

RECURSIVE NamesOf(_)
NamesOf(files) == IF files = <<>> THEN <<>> ELSE <<Head(files).name>> \o NamesOf(Tail(files))

\* C8: GetNetworkDevices returns, in the order of the listing, exactly the
\* entries that are directories after links are followed: directories and
\* links to directories, and neither files, links to files nor links that
\* lead nowhere.
C8_OnlyDirsBehindLinks ==
  AskedNet => ret.err = "nil" /\ ret.dirs = NamesOf(SelectSeq(netFiles.files, LeadsToDir))

\* A listing with a file, a link that leads nowhere and, behind them, a link
\* to a directory, which is returned.
C8_Witness ==
  /\ AskedNet
  /\ \E i, j, k \in 1..Len(netFiles.files) :
       /\ i < k /\ j < k
       /\ netFiles.files[i].kind = "file"
       /\ netFiles.files[j].kind = "linkbroken"
       /\ netFiles.files[k].kind = "linkdir"
       /\ ret.dirs = <<k>>

(***************************************************************************)
(* Claims about the shared CPU map                                         *)
(***************************************************************************)

\* The number of bits set in a hexadecimal digit.
DigitBits(c) == Cardinality({ k \in {1, 2, 4, 8} : (DigitVal(c) \div k) % 2 = 1 })

MaskText(tok) == Between(tok, Blank, Blank)

\* A mask of at most 64 bits in hexadecimal.
IsMask64(m) ==
  /\ m # <<>>
  /\ \A i \in 1..Len(m) : DigitVal(m[i]) <= 15
  /\ Len(TrimLeftZeros(m)) <= 16

RECURSIVE BitsOfMask(_, _)
BitsOfMask(m, k) == IF k = 0 THEN 0 ELSE DigitBits(m[k]) + BitsOfMask(m, k - 1)

RECURSIVE BitsOfMasks(_, _)
BitsOfMasks(s, starts) ==
  IF starts = {} THEN 0
  ELSE LET a == SetMin(starts)
       IN BitsOfMask(MaskText(TokenAt(s, a)), Len(MaskText(TokenAt(s, a))))
            + BitsOfMasks(s, starts \ {a})

AskedCount == call.op = "getCPUCount" /\ cpuMapFile.kind = "data"

\* C5: getCPUCount returns the sum, over the comma-separated hexadecimal
\* masks of the map, of the bits set in each 64-bit mask ("f" gives 4, "0,f"
\* gives 4, "ff,ff" gives 16); if any mask cannot be parsed it returns an
\* error and the count 0, however many masks before it were parsed.
C5_SumOfSetBits ==
  AskedCount =>
    /\ IF \A a \in TokenStarts(cpuMapFile.data) : IsMask64(MaskText(TokenAt(cpuMapFile.data, a)))
       THEN ret.err = "nil" /\ ret.count = BitsOfMasks(cpuMapFile.data, TokenStarts(cpuMapFile.data))
       ELSE ret.err # "nil" /\ ret.count = 0
    /\ cpuMapFile.data = <<"f">> => ret.count = 4
    /\ cpuMapFile.data = <<"0", ",", "f">> => ret.count = 4
    /\ cpuMapFile.data = <<"f", "f", ",", "f", "f">> => ret.count = 16

\* The map "ff,ff": two masks, eight bits set in each, sixteen in all.
C5_Witness ==
  /\ AskedCount
  /\ cpuMapFile.data = <<"f", "f", ",", "f", "f">>
  /\ ret.count = 16 /\ ret.err = "nil"

====
